---------------------------- MODULE Spec2Model ----------------------------
(***************************************************************************)
(* A model of the financial-ratios library (src/index.js): nine functions  *)
(* over JavaScript numbers.  A JavaScript number is an IEEE-754 binary64   *)
(* value, so the arithmetic below is binary64 arithmetic, correctly        *)
(* rounded (round-to-nearest, ties-to-even), with signed zeros, gradual    *)
(* underflow, overflow to infinity and not-a-number.  Significands are     *)
(* wider than TLC's integers, so they are kept as sequences of limbs.      *)
(***************************************************************************)
EXTENDS Integers, Sequences, FiniteSets, TLC

(***************************************************************************)
(* The library keeps no state of its own (src/index.js declares functions  *)
(* only), so the state is its callers': pc, fn, lits (the argument         *)
(* literals), args (their values) and ret are the call under way, or the   *)
(* last one made; kept is a README call a caller has held on to, with its  *)
(* arguments, its result and the number of other calls made since.         *)
(***************************************************************************)
VARIABLES pc, fn, lits, args, ret, kept

vars == <<pc, fn, lits, args, ret, kept>>

\* No call: the value of ret between calls, and of kept before Keep.
None == [k |-> "none"]

(***************************************************************************)
(* Natural numbers of any size: limbs in base 2^15, least significant      *)
(* first, no leading (most significant) zero limb; zero is << >>.          *)
(***************************************************************************)
Base == 2^15

Max(a, b) == IF a >= b THEN a ELSE b

Limb(a, i) == IF i <= Len(a) THEN a[i] ELSE 0

RECURSIVE BNorm(_)
BNorm(a) ==
  IF a = << >> THEN << >>
  ELSE IF a[Len(a)] = 0 THEN BNorm(SubSeq(a, 1, Len(a) - 1)) ELSE a

RECURSIVE FromNat(_)
FromNat(n) == IF n = 0 THEN << >> ELSE <<n % Base>> \o FromNat(n \div Base)

RECURSIVE CmpFrom(_, _, _)
CmpFrom(a, b, i) ==
  IF i = 0 THEN 0
  ELSE IF a[i] < b[i] THEN -1
  ELSE IF a[i] > b[i] THEN 1
  ELSE CmpFrom(a, b, i - 1)

\* -1, 0 or 1 as a < b, a = b or a > b.
BCmp(a, b) ==
  IF Len(a) < Len(b) THEN -1
  ELSE IF Len(a) > Len(b) THEN 1
  ELSE CmpFrom(a, b, Len(a))

RECURSIVE AddFrom(_, _, _, _)
AddFrom(a, b, i, c) ==
  IF i > Len(a) /\ i > Len(b)
  THEN IF c = 0 THEN << >> ELSE <<c>>
  ELSE LET s == Limb(a, i) + Limb(b, i) + c
       IN  <<s % Base>> \o AddFrom(a, b, i + 1, s \div Base)

BAdd(a, b) == AddFrom(a, b, 1, 0)

RECURSIVE SubFrom(_, _, _, _)
SubFrom(a, b, i, c) ==
  IF i > Len(a) THEN << >>
  ELSE LET s == a[i] - Limb(b, i) - c
       IN  IF s < 0 THEN <<s + Base>> \o SubFrom(a, b, i + 1, 1)
           ELSE <<s>> \o SubFrom(a, b, i + 1, 0)

\* a - b, for a >= b.
BSub(a, b) == BNorm(SubFrom(a, b, 1, 0))

RECURSIVE MulSmallFrom(_, _, _, _)
MulSmallFrom(a, k, i, c) ==
  IF i > Len(a)
  THEN IF c = 0 THEN << >> ELSE <<c>>
  ELSE LET s == a[i] * k + c
       IN  <<s % Base>> \o MulSmallFrom(a, k, i + 1, s \div Base)

\* a * k, for 0 <= k <= Base.
BMulSmall(a, k) == IF k = 0 THEN << >> ELSE MulSmallFrom(a, k, 1, 0)

BShlLimbs(a, n) == IF a = << >> THEN << >> ELSE [i \in 1..n |-> 0] \o a

RECURSIVE MulFrom(_, _, _)
MulFrom(a, b, i) ==
  IF i > Len(b) THEN << >>
  ELSE BAdd(BShlLimbs(BMulSmall(a, b[i]), i - 1), MulFrom(a, b, i + 1))

BMul(a, b) == MulFrom(a, b, 1)

\* a * 2^n.
BShl(a, n) == BShlLimbs(BMulSmall(a, 2^(n % 15)), n \div 15)

RECURSIVE DivSmallFrom(_, _, _, _)
DivSmallFrom(a, k, i, r) ==
  IF i = 0 THEN << >>
  ELSE LET s == r * Base + a[i]
       IN  DivSmallFrom(a, k, i - 1, s % k) \o <<s \div k>>

\* floor(a / k), for 1 <= k <= Base.
BDivSmall(a, k) == BNorm(DivSmallFrom(a, k, Len(a), 0))

\* floor(a / 2^n).
BShr(a, n) ==
  IF n \div 15 >= Len(a) THEN << >>
  ELSE BDivSmall(SubSeq(a, 1 + n \div 15, Len(a)), 2^(n % 15))

\* a mod 2^n # 0.
BLowBits(a, n) == BShl(BShr(a, n), n) # a

BIsOdd(a) == a # << >> /\ a[1] % 2 = 1

RECURSIVE SmallBitLen(_)
SmallBitLen(n) == IF n = 0 THEN 0 ELSE 1 + SmallBitLen(n \div 2)

BBitLen(a) ==
  IF a = << >> THEN 0 ELSE 15 * (Len(a) - 1) + SmallBitLen(a[Len(a)])

\* Bit n (from 0) of a.
BBit(a, n) == IF BIsOdd(BShr(a, n)) THEN 1 ELSE 0

\* Long division, one quotient bit per step: <<q', r'>> with
\* q' * b + r' = (q * b + r) * 2^n, for r < b.
RECURSIVE DivLoop(_, _, _, _)
DivLoop(b, n, q, r) ==
  IF n = 0 THEN <<q, r>>
  ELSE LET r2 == BAdd(r, r)
           q2 == BAdd(q, q)
       IN  IF Len(q2) >= 0 /\ BCmp(r2, b) >= 0
           THEN DivLoop(b, n - 1, BAdd(q2, <<1>>), BSub(r2, b))
           ELSE DivLoop(b, n - 1, q2, r2)

\* <<floor(a * 2^n / b), whether a remainder is left>>, for b <= a < 2 * b
\* or a < b.
BDivPow(a, n, b) ==
  LET qr == IF BCmp(a, b) >= 0
            THEN DivLoop(b, n, <<1>>, BSub(a, b))
            ELSE DivLoop(b, n, << >>, a)
  IN  <<qr[1], qr[2] # << >>>>

(***************************************************************************)
(* JavaScript numbers (IEEE-754 binary64).  A number is not-a-number, an   *)
(* infinity with its sign s (1: negative), or the finite value             *)
(* (-1)^s * m * 2^e, kept canonical so that equal records are the same     *)
(* number: m has exactly Precision bits and EMin <= e <= EMax (normal), or *)
(* fewer bits and e = EMin (subnormal; m = << >> is the zero of sign s).   *)
(***************************************************************************)
Precision == 53

EMin == -1074

EMax == 971

NaN == [k |-> "nan"]

Inf(s) == [k |-> "inf", s |-> s]

Zero(s) == [k |-> "fin", s |-> s, m |-> << >>, e |-> EMin]

IsNaN(v) == v.k = "nan"

IsInf(v) == v.k = "inf"

IsFinite(v) == v.k = "fin"

IsZero(v) == v.k = "fin" /\ v.m = << >>

Xor(s, t) == IF s = t THEN 0 ELSE 1

\* The number nearest to (-1)^s * (M + d) * 2^E, where 0 < d < 1 if sticky
\* and d = 0 if not: ties go to the even significand, a magnitude past the
\* largest finite number becomes an infinity.  If sticky, M has at least
\* Precision + 2 bits.
Round(s, M, E, sticky) ==
  LET L == BBitLen(M)
      e == Max(E + L - Precision, EMin)
      sh == e - E
  IN  IF M = << >> /\ ~sticky THEN Zero(s)
      ELSE IF sh <= 0
      THEN IF e > EMax THEN Inf(s)
           ELSE [k |-> "fin", s |-> s, m |-> BShl(M, -sh), e |-> e]
      ELSE LET q == BShr(M, sh)
               half == BBit(M, sh - 1) = 1
               low == sticky \/ BLowBits(M, sh - 1)
               up == half /\ (low \/ BIsOdd(q))
               m1 == IF up THEN BAdd(q, <<1>>) ELSE q
               carry == BBitLen(m1) > Precision
               m2 == IF carry THEN BShr(m1, 1) ELSE m1
               e2 == IF carry THEN e + 1 ELSE e
           IN  IF e2 > EMax THEN Inf(s)
               ELSE [k |-> "fin", s |-> s, m |-> m2, e |-> e2]

\* The number an integer literal n denotes, for |n| < 2^31.
Num(n) ==
  IF n < 0 THEN Round(1, FromNat(-n), 0, FALSE)
  ELSE Round(0, FromNat(n), 0, FALSE)

\* Unary minus.
Neg(v) ==
  IF IsNaN(v) THEN NaN ELSE [v EXCEPT !.s = 1 - v.s]

\* Magnitudes of finite numbers: -1, 0, 1 as |a| < |b|, |a| = |b|, |a| > |b|.
MagCmp(a, b) ==
  IF a.e < b.e THEN -1
  ELSE IF a.e > b.e THEN 1
  ELSE BCmp(a.m, b.m)

\* Finite a + b.
AddFinite(a, b) ==
  LET hi == IF a.e >= b.e THEN a ELSE b
      lo == IF a.e >= b.e THEN b ELSE a
      d == hi.e - lo.e
  IN  IF IsZero(a) /\ IsZero(b)
      THEN Zero(IF a.s = 1 /\ b.s = 1 THEN 1 ELSE 0)
      ELSE IF IsZero(lo) \/ d > Precision + 7 THEN hi
      ELSE LET A == BShl(hi.m, d)
               c == BCmp(A, lo.m)
           IN  IF hi.s = lo.s THEN Round(hi.s, BAdd(A, lo.m), lo.e, FALSE)
               ELSE IF c = 0 THEN Zero(0)
               ELSE IF c > 0 THEN Round(hi.s, BSub(A, lo.m), lo.e, FALSE)
               ELSE Round(lo.s, BSub(lo.m, A), lo.e, FALSE)

\* a + b
Add(a, b) ==
  IF IsNaN(a) \/ IsNaN(b) THEN NaN
  ELSE IF IsInf(a) /\ IsInf(b) THEN (IF a.s = b.s THEN a ELSE NaN)
  ELSE IF IsInf(a) THEN a
  ELSE IF IsInf(b) THEN b
  ELSE AddFinite(a, b)

\* a - b
Sub(a, b) == Add(a, Neg(b))

\* a * b
Mul(a, b) ==
  IF IsNaN(a) \/ IsNaN(b) THEN NaN
  ELSE IF IsInf(a) \/ IsInf(b)
       THEN IF IsZero(a) \/ IsZero(b) THEN NaN ELSE Inf(Xor(a.s, b.s))
  ELSE IF IsZero(a) \/ IsZero(b) THEN Zero(Xor(a.s, b.s))
  ELSE Round(Xor(a.s, b.s), BMul(a.m, b.m), a.e + b.e, FALSE)

\* The quotient of two nonzero finite magnitudes, am * 2^ae over bm * 2^be,
\* with sign s.
DivMag(s, am, ae, bm, be) ==
  LET sa == Precision - BBitLen(am)
      sb == Precision - BBitLen(bm)
      n == Precision + 2
      qs == BDivPow(BShl(am, sa), n, BShl(bm, sb))
  IN  Round(s, qs[1], (ae - sa) - (be - sb) - n, qs[2])

\* a / b
Div(a, b) ==
  IF IsNaN(a) \/ IsNaN(b) THEN NaN
  ELSE IF IsInf(a) THEN (IF IsInf(b) THEN NaN ELSE Inf(Xor(a.s, b.s)))
  ELSE IF IsInf(b) THEN Zero(Xor(a.s, b.s))
  ELSE IF IsZero(b) THEN (IF IsZero(a) THEN NaN ELSE Inf(Xor(a.s, b.s)))
  ELSE IF IsZero(a) THEN Zero(Xor(a.s, b.s))
  ELSE DivMag(Xor(a.s, b.s), a.m, a.e, b.m, b.e)

\* a === b
StrictEq(a, b) ==
  /\ ~IsNaN(a)
  /\ ~IsNaN(b)
  /\ \/ a = b
     \/ IsZero(a) /\ IsZero(b)

\* a < b
Less(a, b) ==
  /\ ~IsNaN(a)
  /\ ~IsNaN(b)
  /\ ~(IsZero(a) /\ IsZero(b))
  /\ a # b
  /\ IF a.s # b.s THEN a.s = 1
     ELSE IF IsInf(a) THEN a.s = 1
     ELSE IF IsInf(b) THEN b.s = 0
     ELSE IF a.s = 0 THEN MagCmp(a, b) < 0 ELSE MagCmp(a, b) > 0

\* a <= b
LessEq(a, b) == Less(a, b) \/ StrictEq(a, b)

\* The largest r with r * r <= M, found bit by bit from bit i down.
RECURSIVE SqrtLoop(_, _, _)
SqrtLoop(M, i, r) ==
  IF i < 0 THEN r
  ELSE LET c == BAdd(r, BShl(<<1>>, i))
       IN  IF BCmp(BMul(c, c), M) <= 0
           THEN SqrtLoop(M, i - 1, c)
           ELSE SqrtLoop(M, i - 1, r)

\* Math.sqrt(v)
Sqrt(v) ==
  IF IsNaN(v) THEN NaN
  ELSE IF IsZero(v) THEN v
  ELSE IF v.s = 1 THEN NaN
  ELSE IF IsInf(v) THEN v
  ELSE LET t0 == 2 * Precision + 4 - BBitLen(v.m)
           t == IF (v.e - t0) % 2 = 0 THEN t0 ELSE t0 + 1
           M == BShl(v.m, t)
           r == SqrtLoop(M, Precision + 2, << >>)
       IN  Round(0, r, (v.e - t) \div 2, BMul(r, r) # M)

\* The number a decimal literal denotes: the number nearest to n / d, for
\* integers n >= 0 and d > 0.
Dec(n, d) ==
  IF n = 0 THEN Zero(0) ELSE DivMag(0, FromNat(n), 0, FromNat(d), 0)

\* Number.MAX_VALUE and Number.MIN_VALUE: the largest finite number and
\* the smallest positive one.
MaxValue ==
  [k |-> "fin", s |-> 0, m |-> BSub(BShl(<<1>>, Precision), <<1>>), e |-> EMax]

MinValue == [k |-> "fin", s |-> 0, m |-> <<1>>, e |-> EMin]

(***************************************************************************)
(* Expressions.  An expression is a number, a decimal literal, Math.sqrt   *)
(* of an expression, or two expressions joined by +, -, * or /; Eval is    *)
(* its value, the operands evaluated first.                                *)
(***************************************************************************)
Literal(n, d) == [k |-> "dec", n |-> n, d |-> d]

MathSqrt(x) == [k |-> "sqrt", x |-> x]

Plus(x, y) == [k |-> "bin", op |-> "+", x |-> x, y |-> y]

Minus(x, y) == [k |-> "bin", op |-> "-", x |-> x, y |-> y]

Times(x, y) == [k |-> "bin", op |-> "*", x |-> x, y |-> y]

Over(x, y) == [k |-> "bin", op |-> "/", x |-> x, y |-> y]

Binary(op, a, b) ==
  CASE op = "+" -> Add(a, b)
    [] op = "-" -> Sub(a, b)
    [] op = "*" -> Mul(a, b)
    [] op = "/" -> Div(a, b)

RECURSIVE Eval(_)
Eval(x) ==
  IF x.k = "bin" THEN Binary(x.op, Eval(x.x), Eval(x.y))
  ELSE IF x.k = "sqrt" THEN Sqrt(Eval(x.x))
  ELSE IF x.k = "dec" THEN Dec(x.n, x.d)
  ELSE x

(***************************************************************************)
(* The nine exported functions of src/index.js.                            *)
(***************************************************************************)
\* calculateSharpeRatio without its guard.
SharpeRatioUnguarded(riskFreeRate, averageReturn, standardDeviation) ==
  Eval(Over(Minus(averageReturn, riskFreeRate), standardDeviation))

calculateSharpeRatio(riskFreeRate, averageReturn, standardDeviation) ==
  IF StrictEq(standardDeviation, Zero(0)) THEN NaN
  ELSE Eval(Over(Minus(averageReturn, riskFreeRate), standardDeviation))

\* calculateTreynorRatio with the operands of its subtraction exchanged.
TreynorRatioExchanged(averageReturn, marketReturn, beta) ==
  IF StrictEq(beta, Zero(0)) THEN NaN
  ELSE Eval(Over(Minus(marketReturn, averageReturn), beta))

calculateTreynorRatio(averageReturn, marketReturn, beta) ==
  IF StrictEq(beta, Zero(0)) THEN NaN
  ELSE Eval(Over(Minus(averageReturn, marketReturn), beta))

\* calculateSortinoRatio going wrong once callers have made other calls
\* since the one they kept: a function that reads state shared between calls.
SortinoRatioShared(riskFreeRate, averageReturn, downsideDeviation) ==
  IF kept # None /\ kept.between > 0 THEN NaN
  ELSE IF StrictEq(downsideDeviation, Zero(0)) THEN NaN
  ELSE Eval(Over(Minus(averageReturn, riskFreeRate), downsideDeviation))

calculateSortinoRatio(riskFreeRate, averageReturn, downsideDeviation) ==
  IF StrictEq(downsideDeviation, Zero(0)) THEN NaN
  ELSE Eval(Over(Minus(averageReturn, riskFreeRate), downsideDeviation))

calculateEnterpriseValueToEBITDA(enterpriseValue, ebitda) ==
  IF StrictEq(ebitda, Zero(0)) THEN NaN
  ELSE Eval(Over(enterpriseValue, ebitda))

calculatePriceToBook(stockPrice, bookValuePerShare) ==
  IF StrictEq(bookValuePerShare, Zero(0)) THEN NaN
  ELSE Eval(Over(stockPrice, bookValuePerShare))

\* calculateGrahamNumber guarding its divisor only.
GrahamNumberDivisorGuard(earningsPerShare, epsGrowthRate, bondYield) ==
  IF StrictEq(bondYield, Zero(0)) THEN NaN
  ELSE LET squareRoot == MathSqrt(Literal(225, 10))
       IN  Eval(Over(Times(Times(earningsPerShare,
                                 Plus(Literal(1, 1), epsGrowthRate)),
                           squareRoot),
                     bondYield))

calculateGrahamNumber(earningsPerShare, epsGrowthRate, bondYield) ==
  IF StrictEq(earningsPerShare, Zero(0)) \/ StrictEq(bondYield, Zero(0))
  THEN NaN
  ELSE LET squareRoot == MathSqrt(Literal(225, 10))
       IN  Eval(Over(Times(Times(earningsPerShare,
                                 Plus(Literal(1, 1), epsGrowthRate)),
                           squareRoot),
                     bondYield))

\* calculateExpectedReturnCAPM with the market return in place of the
\* market's premium.
ExpectedReturnNoPremium(riskFreeRate, marketReturn, beta) ==
  Eval(Plus(riskFreeRate, Times(beta, marketReturn)))

calculateExpectedReturnCAPM(riskFreeRate, marketReturn, beta) ==
  Eval(Plus(riskFreeRate, Times(beta, Minus(marketReturn, riskFreeRate))))

\* calculateAltmanZScore as the textbook's weighted sum: the numerator,
\* not divided.
AltmanZScoreTextbook(workingCapital, retainedEarnings, totalAssets, marketValueEquity, totalLiabilities) ==
  Eval(Plus(Plus(Plus(Over(Times(Literal(12, 10), workingCapital),
                           totalAssets),
                      Over(Times(Literal(14, 10), retainedEarnings),
                           totalAssets)),
                 Over(Times(Literal(33, 10), marketValueEquity),
                      totalLiabilities)),
            Over(Times(Literal(6, 10), Minus(totalAssets, totalLiabilities)),
                 totalLiabilities)))

\* calculateAltmanZScore with a guard on its two divisors.
AltmanZScoreGuarded(workingCapital, retainedEarnings, totalAssets, marketValueEquity, totalLiabilities) ==
  IF StrictEq(totalAssets, Zero(0)) \/ StrictEq(totalLiabilities, Zero(0))
  THEN NaN
  ELSE Eval(Over(Plus(Plus(Plus(Over(Times(Literal(12, 10), workingCapital),
                                     totalAssets),
                                Over(Times(Literal(14, 10), retainedEarnings),
                                     totalAssets)),
                           Over(Times(Literal(33, 10), marketValueEquity),
                                totalLiabilities)),
                      Over(Times(Literal(6, 10),
                                 Minus(totalAssets, totalLiabilities)),
                           totalLiabilities)),
                 Over(marketValueEquity, totalLiabilities)))

\* calculateAltmanZScore dividing by marketValueEquity / totalLiabilities
\* only where that is not 0, and returning the numerator where it is.
AltmanZScoreSafeDivision(workingCapital, retainedEarnings, totalAssets, marketValueEquity, totalLiabilities) ==
  LET numerator ==
        Plus(Plus(Plus(Over(Times(Literal(12, 10), workingCapital),
                            totalAssets),
                       Over(Times(Literal(14, 10), retainedEarnings),
                            totalAssets)),
                  Over(Times(Literal(33, 10), marketValueEquity),
                       totalLiabilities)),
             Over(Times(Literal(6, 10), Minus(totalAssets, totalLiabilities)),
                  totalLiabilities))
      denominator == Over(marketValueEquity, totalLiabilities)
  IN  IF StrictEq(Eval(denominator), Zero(0)) THEN Eval(numerator)
      ELSE Eval(Over(numerator, denominator))

calculateAltmanZScore(workingCapital, retainedEarnings, totalAssets, marketValueEquity, totalLiabilities) ==
  LET numerator ==
        Plus(Plus(Plus(Over(Times(Literal(12, 10), workingCapital),
                            totalAssets),
                       Over(Times(Literal(14, 10), retainedEarnings),
                            totalAssets)),
                  Over(Times(Literal(33, 10), marketValueEquity),
                       totalLiabilities)),
             Over(Times(Literal(6, 10), Minus(totalAssets, totalLiabilities)),
                  totalLiabilities))
      denominator == Over(marketValueEquity, totalLiabilities)
  IN  Eval(Over(numerator, denominator))

\* calculateGordonIntrinsicValueDDM with < in place of <= in its guard.
GordonIntrinsicValueStrictGuard(currentDividend, growthRate, discountRate) ==
  IF Less(discountRate, growthRate) THEN NaN
  ELSE Eval(Over(currentDividend, Minus(discountRate, growthRate)))

calculateGordonIntrinsicValueDDM(currentDividend, growthRate, discountRate) ==
  IF LessEq(discountRate, growthRate) THEN NaN
  ELSE Eval(Over(currentDividend, Minus(discountRate, growthRate)))

\* export { ... }
Functions ==
  {"calculateSharpeRatio", "calculateTreynorRatio", "calculateSortinoRatio",
   "calculateEnterpriseValueToEBITDA", "calculatePriceToBook",
   "calculateGrahamNumber", "calculateExpectedReturnCAPM",
   "calculateAltmanZScore", "calculateGordonIntrinsicValueDDM"}

(***************************************************************************)
(* Callers write arguments as numeric literals: the decimal s * n / d (s   *)
(* the sign, d a power of ten; 0 with s = -1 is -0) or a named number.     *)
(* Val is the number a literal denotes.                                    *)
(***************************************************************************)
Lit(n, d) ==
  [c |-> "dec", s |-> IF n < 0 THEN -1 ELSE 1, n |-> IF n < 0 THEN -n ELSE n,
   d |-> d]

Negated(l) == [l EXCEPT !.s = -l.s]

MAX_VALUE == [c |-> "MAX_VALUE", s |-> 1, n |-> 0, d |-> 1]

MIN_VALUE == [c |-> "MIN_VALUE", s |-> 1, n |-> 0, d |-> 1]

Infinity == [c |-> "Infinity", s |-> 1, n |-> 0, d |-> 1]

NotANumber == [c |-> "NaN", s |-> 1, n |-> 0, d |-> 1]

Val(l) ==
  LET v == CASE l.c = "dec" -> Dec(l.n, l.d)
             [] l.c = "MAX_VALUE" -> MaxValue
             [] l.c = "MIN_VALUE" -> MinValue
             [] l.c = "Infinity" -> Inf(0)
             [] l.c = "NaN" -> NaN
  IN  IF l.s < 0 THEN Neg(v) ELSE v

(***************************************************************************)
(* The test values of the README's example usage.                          *)
(***************************************************************************)
ExRiskFreeRate == Lit(2, 100)

ExAverageReturn == Lit(1, 10)

ExStandardDeviation == Lit(15, 100)

ExMarketReturn == Lit(8, 100)

ExBeta == Lit(12, 10)

ExDownsideDeviation == Lit(12, 100)

ExEnterpriseValue == Lit(5000000, 1)

ExEbitda == Lit(1000000, 1)

ExStockPrice == Lit(50, 1)

ExBookValuePerShare == Lit(25, 1)

ExEarningsPerShare == Lit(5, 1)

ExEpsGrowthRate == Lit(5, 100)

ExBondYield == Lit(3, 100)

ExWorkingCapital == Lit(2000000, 1)

ExRetainedEarnings == Lit(1500000, 1)

ExTotalAssets == Lit(10000000, 1)

ExMarketValueEquity == Lit(4000000, 1)

ExTotalLiabilities == Lit(6000000, 1)

ExCurrentDividend == Lit(2, 1)

ExGrowthRate == Lit(6, 100)

ExDiscountRate == Lit(1, 10)

\* The calls of the README's example usage, one per function.
ReadmeArgs ==
  [calculateSharpeRatio |->
     <<ExRiskFreeRate, ExAverageReturn, ExStandardDeviation>>,
   calculateTreynorRatio |-> <<ExAverageReturn, ExMarketReturn, ExBeta>>,
   calculateSortinoRatio |->
     <<ExRiskFreeRate, ExAverageReturn, ExDownsideDeviation>>,
   calculateEnterpriseValueToEBITDA |-> <<ExEnterpriseValue, ExEbitda>>,
   calculatePriceToBook |-> <<ExStockPrice, ExBookValuePerShare>>,
   calculateGrahamNumber |->
     <<ExEarningsPerShare, ExEpsGrowthRate, ExBondYield>>,
   calculateExpectedReturnCAPM |->
     <<ExRiskFreeRate, ExMarketReturn, ExBeta>>,
   calculateAltmanZScore |->
     <<ExWorkingCapital, ExRetainedEarnings, ExTotalAssets,
       ExMarketValueEquity, ExTotalLiabilities>>,
   calculateGordonIntrinsicValueDDM |->
     <<ExCurrentDividend, ExGrowthRate, ExDiscountRate>>]

(***************************************************************************)
(* The inputs the callers draw from: the README's values, their negations, *)
(* both zeros, the whole numbers -MaxUnit..MaxUnit, the extreme finite     *)
(* numbers and the values that are no finite number.                       *)
(***************************************************************************)
MaxUnit == 1

\* The number of other calls made between a kept call and its repetition.
MaxBetween == 1

Units == {Lit(n, 1) : n \in -MaxUnit..MaxUnit}

Zeros == {Lit(0, 1), Negated(Lit(0, 1))}

NonFinite == {Infinity, Negated(Infinity), NotANumber}

Denominators(ex) == {ex, Negated(ex)} \cup Zeros \cup Units

AltmanGrid ==
  {ExWorkingCapital, Lit(0, 1)} \X {ExRetainedEarnings, Lit(0, 1)}
    \X {ExTotalAssets, ExTotalLiabilities, Lit(0, 1)}
    \X ({ExMarketValueEquity} \cup Units) \X {ExTotalLiabilities, Lit(0, 1)}

AltmanExtremes ==
  {<<MAX_VALUE, ExRetainedEarnings, MIN_VALUE, ExMarketValueEquity,
     ExTotalLiabilities>>,
   <<ExWorkingCapital, ExRetainedEarnings, ExTotalAssets, MIN_VALUE,
     MAX_VALUE>>,
   <<ExWorkingCapital, ExRetainedEarnings, ExTotalAssets, MAX_VALUE,
     MIN_VALUE>>,
   <<Negated(MAX_VALUE), MAX_VALUE, MIN_VALUE, ExMarketValueEquity,
     ExTotalLiabilities>>,
   <<MAX_VALUE, MAX_VALUE, ExTotalAssets, Lit(0, 1), ExTotalLiabilities>>,
   <<ExWorkingCapital, ExRetainedEarnings, Lit(0, 1), MAX_VALUE,
     MIN_VALUE>>,
   <<ExWorkingCapital, ExRetainedEarnings, Negated(Lit(0, 1)),
     ExMarketValueEquity, Negated(ExTotalLiabilities)>>,
   <<Infinity, ExRetainedEarnings, ExTotalAssets, ExMarketValueEquity,
     ExTotalLiabilities>>,
   <<ExWorkingCapital, NotANumber, ExTotalAssets, ExMarketValueEquity,
     ExTotalLiabilities>>}

Inputs ==
  [calculateSharpeRatio |->
     ({ExRiskFreeRate, MAX_VALUE} \cup NonFinite)
       \X {ExAverageReturn, Negated(MAX_VALUE)}
       \X Denominators(ExStandardDeviation),
   calculateTreynorRatio |->
     {ExAverageReturn, ExMarketReturn}
       \X ({ExAverageReturn, ExMarketReturn} \cup NonFinite)
       \X Denominators(ExBeta),
   calculateSortinoRatio |->
     {ExRiskFreeRate, ExAverageReturn} \X {ExRiskFreeRate, ExAverageReturn}
       \X (Denominators(ExDownsideDeviation) \cup {MIN_VALUE}),
   calculateEnterpriseValueToEBITDA |->
     ({ExEnterpriseValue, MAX_VALUE} \cup Units)
       \X (Denominators(ExEbitda) \cup {MIN_VALUE}),
   calculatePriceToBook |->
     ({ExStockPrice} \cup Units \cup NonFinite)
       \X (Denominators(ExBookValuePerShare) \cup NonFinite),
   calculateGrahamNumber |->
     ({ExEarningsPerShare, Infinity} \cup Zeros \cup Units)
       \X {ExEpsGrowthRate, Lit(-1, 1), NotANumber}
       \X ({ExBondYield, Negated(ExBondYield)} \cup Zeros),
   calculateExpectedReturnCAPM |->
     {ExRiskFreeRate, MAX_VALUE} \X {ExMarketReturn, Negated(MAX_VALUE)}
       \X ({ExBeta, MAX_VALUE} \cup Zeros \cup Units),
   calculateAltmanZScore |-> AltmanGrid \cup AltmanExtremes,
   calculateGordonIntrinsicValueDDM |->
     ({ExCurrentDividend, Negated(ExCurrentDividend)} \cup Units)
       \X {ExGrowthRate, Lit(5, 100), Negated(MAX_VALUE)}
       \X {ExDiscountRate, Lit(5, 100), ExGrowthRate, MAX_VALUE}]

(***************************************************************************)
(* The callers' steps.                                                     *)
(***************************************************************************)
Init ==
  /\ pc = "idle"
  /\ fn = "none"
  /\ lits = << >>
  /\ args = << >>
  /\ ret = None
  /\ kept = None

\* A caller writes a call of f with the argument literals a.  Once a call
\* is kept, the callers go on with the README's calls: the kept call again,
\* or up to MaxBetween other ones.
Invoke(f, a) ==
  /\ pc \in {"idle", "returned"}
  /\ pc' = "invoked"
  /\ fn' = f
  /\ lits' = a
  /\ args' = << >>
  /\ ret' = None
  /\ IF kept = None THEN kept' = kept
     ELSE /\ a = ReadmeArgs[f]
          /\ IF f = kept.fn THEN kept' = kept
             ELSE /\ kept.between < MaxBetween
                  /\ kept' = [kept EXCEPT !.between = @ + 1]

\* The arguments are evaluated, and f is entered.
Enter ==
  /\ pc = "invoked"
  /\ pc' = "called"
  /\ args' = [i \in 1..Len(lits) |-> Val(lits[i])]
  /\ UNCHANGED <<fn, lits, ret, kept>>

\* The call under way runs to its return statement: one step each.
Sharpe ==
  /\ pc = "called"
  /\ fn = "calculateSharpeRatio"
  /\ ret' = calculateSharpeRatio(args[1], args[2], args[3])
  /\ pc' = "returned"
  /\ UNCHANGED <<fn, lits, args, kept>>

Treynor ==
  /\ pc = "called"
  /\ fn = "calculateTreynorRatio"
  /\ ret' = calculateTreynorRatio(args[1], args[2], args[3])
  /\ pc' = "returned"
  /\ UNCHANGED <<fn, lits, args, kept>>

Sortino ==
  /\ pc = "called"
  /\ fn = "calculateSortinoRatio"
  /\ ret' = calculateSortinoRatio(args[1], args[2], args[3])
  /\ pc' = "returned"
  /\ UNCHANGED <<fn, lits, args, kept>>

EnterpriseValueToEBITDA ==
  /\ pc = "called"
  /\ fn = "calculateEnterpriseValueToEBITDA"
  /\ ret' = calculateEnterpriseValueToEBITDA(args[1], args[2])
  /\ pc' = "returned"
  /\ UNCHANGED <<fn, lits, args, kept>>

PriceToBook ==
  /\ pc = "called"
  /\ fn = "calculatePriceToBook"
  /\ ret' = calculatePriceToBook(args[1], args[2])
  /\ pc' = "returned"
  /\ UNCHANGED <<fn, lits, args, kept>>

GrahamNumber ==
  /\ pc = "called"
  /\ fn = "calculateGrahamNumber"
  /\ ret' = calculateGrahamNumber(args[1], args[2], args[3])
  /\ pc' = "returned"
  /\ UNCHANGED <<fn, lits, args, kept>>

ExpectedReturnCAPM ==
  /\ pc = "called"
  /\ fn = "calculateExpectedReturnCAPM"
  /\ ret' = calculateExpectedReturnCAPM(args[1], args[2], args[3])
  /\ pc' = "returned"
  /\ UNCHANGED <<fn, lits, args, kept>>

AltmanZScore ==
  /\ pc = "called"
  /\ fn = "calculateAltmanZScore"
  /\ ret' = calculateAltmanZScore(args[1], args[2], args[3], args[4], args[5])
  /\ pc' = "returned"
  /\ UNCHANGED <<fn, lits, args, kept>>

GordonIntrinsicValueDDM ==
  /\ pc = "called"
  /\ fn = "calculateGordonIntrinsicValueDDM"
  /\ ret' = calculateGordonIntrinsicValueDDM(args[1], args[2], args[3])
  /\ pc' = "returned"
  /\ UNCHANGED <<fn, lits, args, kept>>

\* A caller holds on to the result of a README call.
Keep ==
  /\ pc = "returned"
  /\ kept = None
  /\ lits = ReadmeArgs[fn]
  /\ kept' = [fn |-> fn, args |-> args, ret |-> ret, between |-> 0]
  /\ UNCHANGED <<pc, fn, lits, args, ret>>

Next ==
  \/ \E f \in Functions : \E a \in Inputs[f] : Invoke(f, a)
  \/ Enter
  \/ Sharpe
  \/ Treynor
  \/ Sortino
  \/ EnterpriseValueToEBITDA
  \/ PriceToBook
  \/ GrahamNumber
  \/ ExpectedReturnCAPM
  \/ AltmanZScore
  \/ GordonIntrinsicValueDDM
  \/ Keep

Spec == Init /\ [][Next]_vars


(***************************************************************************)
(* The properties checked.  Returned(f) holds when a call of f has just    *)
(* returned: args are the numbers it was given and ret is its result.      *)
(* Results are compared as values of the number type: -0 differs from 0,   *)
(* and not-a-number is one value.                                          *)
(***************************************************************************)
Returned(f) == pc = "returned" /\ fn = f

Readme(f) == Returned(f) /\ lits = ReadmeArgs[f]

AllFinite == \A i \in 1..Len(args) : IsFinite(args[i])

\* The numbers next to a normal number v, away from 0 and towards it.
NextAway(v) == [v EXCEPT !.m = BAdd(@, <<1>>)]

NextTowardsZero(v) == [v EXCEPT !.m = BSub(@, <<1>>)]

\* Math.sqrt(22.5)
Sqrt22_5 == Sqrt(Dec(225, 10))

\* The numerator of the Altman score as src/index.js groups it.
NumeratorAsCoded(wc, re, ta, mve, tl) ==
  Add(Add(Add(Div(Mul(Dec(12, 10), wc), ta), Div(Mul(Dec(14, 10), re), ta)),
          Div(Mul(Dec(33, 10), mve), tl)),
      Div(Mul(Dec(6, 10), Sub(ta, tl)), tl))

\* The numerator with each weight applied to a quotient.
NumeratorOfQuotients(wc, re, ta, mve, tl) ==
  Add(Add(Add(Mul(Dec(12, 10), Div(wc, ta)), Mul(Dec(14, 10), Div(re, ta))),
          Mul(Dec(33, 10), Div(mve, tl))),
      Mul(Dec(6, 10), Div(Sub(ta, tl), tl)))

\* A number that is 0, or of magnitude at least 2^-101 and below 2^100.
Moderate(v) ==
  /\ IsFinite(v)
  /\ \/ IsZero(v)
     \/ BBitLen(v.m) + v.e \in -100..100

\* C1: each of the six guarded functions, called with its guarded
\* denominator exactly 0 (0 or -0) and any other arguments, not-a-number
\* and the infinities included, returns not-a-number.
C1_ZeroDenominatorReturnsNaN ==
  /\ Returned("calculateSharpeRatio") /\ IsZero(args[3]) => IsNaN(ret)
  /\ Returned("calculateTreynorRatio") /\ IsZero(args[3]) => IsNaN(ret)
  /\ Returned("calculateSortinoRatio") /\ IsZero(args[3]) => IsNaN(ret)
  /\ Returned("calculateEnterpriseValueToEBITDA") /\ IsZero(args[2])
       => IsNaN(ret)
  /\ Returned("calculatePriceToBook") /\ IsZero(args[2]) => IsNaN(ret)
  /\ Returned("calculateGrahamNumber") /\ IsZero(args[3]) => IsNaN(ret)

\* A Sharpe call with standardDeviation -0 and an infinite riskFreeRate has
\* returned not-a-number.
C1_Witness ==
  /\ Returned("calculateSharpeRatio")
  /\ args[3] = Zero(1)
  /\ IsInf(args[1])
  /\ IsNaN(ret)

\* C2 as stated: the Gordon function returns not-a-number exactly when
\* discountRate <= growthRate, else currentDividend / (discountRate -
\* growthRate); the README's call (2, 0.06, 0.1) returns 50, and a call
\* with discountRate 0.05 and growthRate 0.06 returns not-a-number.
C2_AsStated ==
  Returned("calculateGordonIntrinsicValueDDM") =>
    /\ IsNaN(ret) <=> LessEq(args[3], args[2])
    /\ Less(args[2], args[3]) => ret = Div(args[1], Sub(args[3], args[2]))
    /\ lits = ReadmeArgs[fn] => ret = Num(50)
    /\ lits[2] = Lit(6, 100) /\ lits[3] = Lit(5, 100) => IsNaN(ret)

\* C2 amended: for finite arguments the Gordon function returns
\* not-a-number exactly when discountRate <= growthRate; whenever
\* discountRate > growthRate it returns currentDividend / (discountRate -
\* growthRate) as the number type computes it, so that the README's call
\* (2, 0.06, 0.1) returns 49.99999999999999, the number next below 50; a
\* call with discountRate 0.05 and growthRate 0.06 returns not-a-number.
C2_GordonGuard ==
  Returned("calculateGordonIntrinsicValueDDM") =>
    /\ LessEq(args[3], args[2]) => IsNaN(ret)
    /\ AllFinite /\ IsNaN(ret) => LessEq(args[3], args[2])
    /\ Less(args[2], args[3]) => ret = Div(args[1], Sub(args[3], args[2]))
    /\ lits = ReadmeArgs[fn] => ret = NextTowardsZero(Num(50))
    /\ lits[2] = Lit(6, 100) /\ lits[3] = Lit(5, 100) => IsNaN(ret)

\* The README's Gordon call has returned the number next below 50.
C2_Witness ==
  /\ Readme("calculateGordonIntrinsicValueDDM")
  /\ Less(ret, Num(50))
  /\ Less(Dec(4999, 100), ret)

\* C3: with a nonzero denominator argument, of either sign, each of the
\* five plain ratio functions returns its formula over its arguments in
\* positional order: (a - r) / s, (a - m) / b, (a - r) / d, ev / e and
\* p / bv.  For finite arguments that is a number or an infinity, never
\* not-a-number; calculatePriceToBook(50, 25) is 2.
C3_PlainRatios ==
  /\ Returned("calculateSharpeRatio") /\ ~IsZero(args[3]) =>
       /\ ret = Div(Sub(args[2], args[1]), args[3])
       /\ AllFinite => ~IsNaN(ret)
  /\ Returned("calculateTreynorRatio") /\ ~IsZero(args[3]) =>
       /\ ret = Div(Sub(args[1], args[2]), args[3])
       /\ AllFinite => ~IsNaN(ret)
  /\ Returned("calculateSortinoRatio") /\ ~IsZero(args[3]) =>
       /\ ret = Div(Sub(args[2], args[1]), args[3])
       /\ AllFinite => ~IsNaN(ret)
  /\ Returned("calculateEnterpriseValueToEBITDA") /\ ~IsZero(args[2]) =>
       /\ ret = Div(args[1], args[2])
       /\ AllFinite => ~IsNaN(ret)
  /\ Returned("calculatePriceToBook") /\ ~IsZero(args[2]) =>
       /\ ret = Div(args[1], args[2])
       /\ AllFinite => ~IsNaN(ret)
  /\ Readme("calculatePriceToBook") => ret = Num(2)

\* A Treynor call with a negative beta and distinct returns has returned a
\* finite number other than 0.
C3_Witness ==
  /\ Returned("calculateTreynorRatio")
  /\ Less(args[3], Zero(0))
  /\ args[1] # args[2]
  /\ AllFinite
  /\ IsFinite(ret)
  /\ ~IsZero(ret)

\* C4: the Graham function returns not-a-number whenever earningsPerShare
\* or bondYield is 0, earningsPerShare 0 with a nonzero bondYield included;
\* with both nonzero it returns earningsPerShare * (1 + epsGrowthRate) *
\* sqrt(22.5) / bondYield, and for finite arguments epsGrowthRate -1 then
\* yields 0, not not-a-number.
C4_GrahamNumber ==
  Returned("calculateGrahamNumber") =>
    /\ IsZero(args[1]) \/ IsZero(args[3]) => IsNaN(ret)
    /\ ~IsZero(args[1]) /\ ~IsZero(args[3]) =>
         /\ ret = Div(Mul(Mul(args[1], Add(Num(1), args[2])), Sqrt22_5),
                      args[3])
         /\ AllFinite /\ args[2] = Num(-1) => IsZero(ret)

\* A Graham call with epsGrowthRate -1 and nonzero finite earningsPerShare
\* and bondYield has returned 0.
C4_Witness ==
  /\ Returned("calculateGrahamNumber")
  /\ args[2] = Num(-1)
  /\ IsFinite(args[1])
  /\ ~IsZero(args[1])
  /\ ~IsZero(args[3])
  /\ IsZero(ret)

\* C5 as stated: with totalAssets, totalLiabilities and marketValueEquity
\* nonzero the Altman function returns numerator / denominator, the
\* numerator being 1.2 * (wc / ta) + 1.4 * (re / ta) + 3.3 * (mve / tl) +
\* 0.6 * ((ta - tl) / tl) and the denominator mve / tl; that is not the
\* numerator alone, and the README's call returns 3.05 / (2 / 3) = 4.575.
C5_AsStated ==
  Returned("calculateAltmanZScore")
    /\ ~IsZero(args[3]) /\ ~IsZero(args[4]) /\ ~IsZero(args[5]) =>
    /\ ret = Div(NumeratorOfQuotients(args[1], args[2], args[3], args[4],
                                      args[5]),
                 Div(args[4], args[5]))
    /\ lits = ReadmeArgs[fn] =>
         /\ ret = Div(Dec(305, 100), Div(Num(2), Num(3)))
         /\ ret = Dec(4575, 1000)
         /\ ret # NumeratorOfQuotients(args[1], args[2], args[3], args[4],
                                       args[5])

\* C5 amended: with the three nonzero the Altman function returns
\* numerator / denominator, the numerator being (1.2 * wc) / ta +
\* (1.4 * re) / ta + (3.3 * mve) / tl + (0.6 * (ta - tl)) / tl, each weight
\* applied before its division, and the denominator mve / tl; that is not
\* the numerator alone, and the README's call returns 4.575000000000001,
\* the number next above 4.575.
C5_AltmanFormula ==
  Returned("calculateAltmanZScore")
    /\ ~IsZero(args[3]) /\ ~IsZero(args[4]) /\ ~IsZero(args[5]) =>
    /\ ret = Div(NumeratorAsCoded(args[1], args[2], args[3], args[4],
                                  args[5]),
                 Div(args[4], args[5]))
    /\ lits = ReadmeArgs[fn] =>
         /\ ret = NextAway(Dec(4575, 1000))
         /\ ret # NumeratorAsCoded(args[1], args[2], args[3], args[4],
                                   args[5])

\* The README's Altman call has returned a number above 4.575 and below
\* 4.576.
C5_Witness ==
  /\ Readme("calculateAltmanZScore")
  /\ Less(Dec(4575, 1000), ret)
  /\ Less(ret, Dec(4576, 1000))

\* C6: for finite arguments with totalAssets or totalLiabilities 0 the
\* Altman function returns what its arithmetic makes of the division by 0,
\* an infinity or not-a-number and never a finite number; no guard returns
\* early: with totalAssets 0 and the README's other values it returns
\* +infinity.
C6_AltmanDivisionByZero ==
  Returned("calculateAltmanZScore") /\ AllFinite
    /\ (IsZero(args[3]) \/ IsZero(args[5])) =>
    /\ ~IsFinite(ret)
    /\ ret = Div(NumeratorAsCoded(args[1], args[2], args[3], args[4],
                                  args[5]),
                 Div(args[4], args[5]))
    /\ lits = <<ExWorkingCapital, ExRetainedEarnings, Lit(0, 1),
                ExMarketValueEquity, ExTotalLiabilities>> => ret = Inf(0)

\* An Altman call with totalAssets 0 and finite arguments has returned an
\* infinity.
C6_Witness ==
  /\ Returned("calculateAltmanZScore")
  /\ AllFinite
  /\ IsZero(args[3])
  /\ ~IsZero(args[5])
  /\ IsInf(ret)

\* C7 as stated: for finite arguments the CAPM function returns
\* riskFreeRate + beta * (marketReturn - riskFreeRate) and never
\* not-a-number, beta 0 included.
C7_AsStated ==
  Returned("calculateExpectedReturnCAPM") /\ AllFinite =>
    /\ ret = Add(args[1], Mul(args[3], Sub(args[2], args[1])))
    /\ ~IsNaN(ret)

\* C7 amended: for finite arguments the CAPM function returns riskFreeRate
\* + beta * (marketReturn - riskFreeRate); that is not-a-number exactly
\* when beta is 0 and marketReturn - riskFreeRate overflows to an infinity,
\* and with beta 0 otherwise it equals riskFreeRate.  The README's call
\* returns 0.092.
C7_ExpectedReturnCAPM ==
  Returned("calculateExpectedReturnCAPM") /\ AllFinite =>
    /\ ret = Add(args[1], Mul(args[3], Sub(args[2], args[1])))
    /\ IsNaN(ret) <=> IsZero(args[3]) /\ IsInf(Sub(args[2], args[1]))
    /\ IsZero(args[3]) /\ ~IsInf(Sub(args[2], args[1]))
         => StrictEq(ret, args[1])
    /\ lits = ReadmeArgs[fn] => ret = Dec(92, 1000)

\* A CAPM call with finite arguments, beta 0 and marketReturn -
\* riskFreeRate overflowing has returned not-a-number.
C7_Witness ==
  /\ Returned("calculateExpectedReturnCAPM")
  /\ AllFinite
  /\ IsZero(args[3])
  /\ IsNaN(ret)

C9_NeverNegative ==
  Returned("calculateGordonIntrinsicValueDDM") /\ ~IsNaN(ret)
    => ~Less(ret, Zero(0))

\* C10 as stated: for finite arguments the Altman function returns an
\* infinity or not-a-number if and only if totalAssets, totalLiabilities or
\* marketValueEquity is 0.
C10_AsStated ==
  Returned("calculateAltmanZScore") /\ AllFinite =>
    (~IsFinite(ret)
       <=> IsZero(args[3]) \/ IsZero(args[4]) \/ IsZero(args[5]))

\* C10 amended: for finite arguments, if totalAssets, totalLiabilities or
\* marketValueEquity is 0 the Altman function returns an infinity or
\* not-a-number: with marketValueEquity 0 and the other two nonzero,
\* not-a-number when the numerator is 0 or not-a-number and an infinity
\* otherwise.  With all three nonzero the result is finite when every
\* argument is 0 or of magnitude at least 2^-101 and below 2^100; beyond
\* that range an overflow or an underflow can make it an infinity or
\* not-a-number.
C10_AltmanNonFinite ==
  Returned("calculateAltmanZScore") /\ AllFinite =>
    /\ IsZero(args[3]) \/ IsZero(args[4]) \/ IsZero(args[5])
         => ~IsFinite(ret)
    /\ IsZero(args[4]) /\ ~IsZero(args[3]) /\ ~IsZero(args[5]) =>
         LET numerator == NumeratorAsCoded(args[1], args[2], args[3],
                                           args[4], args[5])
         IN  IF IsZero(numerator) \/ IsNaN(numerator) THEN IsNaN(ret)
             ELSE IsInf(ret)
    /\ ~IsZero(args[3]) /\ ~IsZero(args[4]) /\ ~IsZero(args[5])
         /\ (\A i \in 1..Len(args) : Moderate(args[i]))
         => IsFinite(ret)

\* An Altman call with marketValueEquity 0, totalAssets and
\* totalLiabilities nonzero and a numerator of 0 has returned not-a-number.
C10_Witness ==
  /\ Returned("calculateAltmanZScore")
  /\ AllFinite
  /\ IsZero(args[4])
  /\ ~IsZero(args[3])
  /\ ~IsZero(args[5])
  /\ IsZero(args[1])
  /\ IsNaN(ret)

=============================================================================
